---- MODULE Spec2Model ----
(***************************************************************************)
(* Model of tracker.py: the rolling-window "days abroad" compliance check. *)
(*                                                                         *)
(* Dates are day numbers (an integer per calendar day), so date            *)
(* subtraction `.days` and `+ timedelta(days=k)` are integer arithmetic.   *)
(* A Trip is a record [start, end]; a Period is a pair <<p_start, p_end>>; *)
(* Python's None and the empty list are both the empty tuple, and an       *)
(* Optional[Trip] is a tuple of zero or one trip.                          *)
(*                                                                         *)
(* The functions of the module are pure.  Each one is an operator computed *)
(* the way the code computes it, and each action applies one function (or  *)
(* runs main) on inputs drawn from bounded sets, recording the arguments   *)
(* and what the call produced.                                             *)
(***************************************************************************)
EXTENDS Integers, Sequences, FiniteSets

VARIABLES
    op,                 \* the function that was called ("none" before any call)
    trip_args,          \* arguments (start, end) of the Trip constructor
    trip_obj,           \* the constructed Trip, or the argument `trip` of the clamp
    trips,              \* argument `trips`
    period,             \* argument `period` / `assessment_period`
    window_days,        \* argument `window_days`
    max_allowed,        \* argument `max_allowed` (args.max_days in main)
    start_index,        \* argument `start_index` of sum_in_window (si in main)
    q_start,            \* main: the parsed --query-start date
    clamped,            \* check_abroad_days / main: list of clamped trips
    merged,             \* result of merge_overlapping_trips
    flags,              \* presence record (argument of the scan, result of the build)
    base,               \* date of flags[0]
    raw,                \* result of rolling_window_violations
    is_compliant,       \* check_abroad_days result, 1st component
    violating_windows,  \* check_abroad_days result, 2nd component
    worst_window,       \* check_abroad_days result, 3rd component
    abroad_in_q,        \* result of sum_in_window
    remaining,          \* main: remaining allowed days
    html_status,        \* main: text of the status badge of the HTML page once loaded
    raised              \* "" or the name of the exception that ended the call

vars == <<op, trip_args, trip_obj, trips, period, window_days, max_allowed, start_index, q_start,
          clamped, merged, flags, base, raw, is_compliant, violating_windows,
          worst_window, abroad_in_q, remaining, html_status, raised>>

(***************************************************************************)
(* Bounds of the model.                                                    *)
(***************************************************************************)
MaxDay == 2          \* dates are the days 0..MaxDay
MaxTrips == 3        \* longest list of trips handed to merge_overlapping_trips
MaxRunTrips == 2     \* longest list of trips handed to the build and the evaluation
MaxMainTrips == 1    \* longest list of trips read by main
MaxLen == 4          \* longest presence record handed to the scan directly
MaxWindow == 3       \* window_days ranges over 1..MaxWindow
MaxAllowed == 2      \* max_allowed ranges over 0..MaxAllowed

Days == 0..MaxDay

None == <<>>

Min(a, b) == IF a <= b THEN a ELSE b
Max(a, b) == IF a >= b THEN a ELSE b

(***************************************************************************)
(* Domain                                                                  *)
(***************************************************************************)

\* A constructor that tests nothing.
TripValidUntested(t) == TRUE

\* Trip.__post_init__: a Trip with end < start cannot be constructed.
TripValid(t) == ~(t.end < t.start)

\* Trip(start, end)
Trip(s, e) == [start |-> s, end |-> e]

\* Every Trip object that can exist over the dates of the model.
Trips == {t \in [start : Days, end : Days] : TripValid(t)}

\* Lists of at most n trips.
TripLists(n) == UNION {[1..k -> Trips] : k \in 0..n}

\* Periods with p_end >= p_start.
Periods == {p \in Days \X Days : p[2] >= p[1]}

\* Any two dates as (p_start, p_end): Period is a plain tuple, nothing
\* keeps p_end from lying before p_start.
AnyPeriods == Days \X Days

\* Presence records: lists of 0/1 of length at most n.
FlagLists(n) == UNION {[1..k -> {0, 1}] : k \in 0..n}

(***************************************************************************)
(* Python list primitives                                                  *)
(***************************************************************************)

\* list[j] with Python's index rule: j in -len..len-1, negative j counts
\* from the end; any other j raises IndexError.
PyInRange(list, j) == j < Len(list) /\ j >= -Len(list)
PyGet(list, j) == IF j >= 0 THEN list[j + 1] ELSE list[Len(list) + j + 1]

\* [0] * n  (the empty list when n <= 0)
Zeros(n) == IF n <= 0 THEN <<>> ELSE [i \in 1..n |-> 0]

\* The trips taken in the order given.
sorted_as_given(s) == s

\* sorted(trips, key=lambda t: t.start): stable, ascending by start.
SortedInsert(s, t) ==
    LET k == Cardinality({i \in 1..Len(s) : s[i].start <= t.start})
    IN  SubSeq(s, 1, k) \o <<t>> \o SubSeq(s, k + 1, Len(s))

RECURSIVE sorted(_)
sorted(s) ==
    IF s = <<>> THEN <<>>
    ELSE SortedInsert(sorted(SubSeq(s, 1, Len(s) - 1)), s[Len(s)])

(***************************************************************************)
(* clamp_trip_to_period                                                    *)
(***************************************************************************)
\* The function taking a one-day intersection for an empty one.
clamp_dropping_single_day(trip, p) ==
    LET p_start == p[1]
        p_end == p[2]
        start == Max(trip.start, p_start)
        end == Min(trip.end, p_end)
    IN  IF end <= start THEN None ELSE <<Trip(start, end)>>

clamp_trip_to_period(trip, p) ==
    LET p_start == p[1]
        p_end == p[2]
        start == Max(trip.start, p_start)
        end == Min(trip.end, p_end)
    IN  IF end < start THEN None ELSE <<Trip(start, end)>>

\* [t for t in (clamp_trip_to_period(t, period) for t in trips) if t]
RECURSIVE clamp_all(_, _)
clamp_all(ts, p) ==
    IF ts = <<>> THEN <<>>
    ELSE clamp_trip_to_period(Head(ts), p) \o clamp_all(Tail(ts), p)

(***************************************************************************)
(* merge_overlapping_trips                                                 *)
(***************************************************************************)

\* The test with the adjacency day left out: touching trips stay apart.
ContiguousNoAdjacency(cur, t) == t.start <= cur.end

\* The test taken strictly: trips sharing only their boundary day stay apart.
ContiguousStrict(cur, t) == t.start < cur.end

\* t.start <= (cur.end + timedelta(days=1))
Contiguous(cur, t) == t.start <= cur.end + 1

\* One iteration that forgets the end of the running trip.
MergeStepTakesNextEnd(st, t) ==
    IF Contiguous(st.cur, t)
    THEN [cur |-> Trip(st.cur.start, t.end), merged |-> st.merged]
    ELSE [cur |-> t, merged |-> Append(st.merged, st.cur)]

\* One iteration that starts a new running trip without keeping the closed one.
MergeStepDropsClosed(st, t) ==
    IF Contiguous(st.cur, t)
    THEN [cur |-> Trip(st.cur.start, Max(st.cur.end, t.end)), merged |-> st.merged]
    ELSE [cur |-> t, merged |-> st.merged]

\* One iteration of the loop over trips_sorted[1:], on the loop state
\* [cur, merged].
MergeStep(st, t) ==
    IF Contiguous(st.cur, t)
    THEN [cur |-> Trip(st.cur.start, Max(st.cur.end, t.end)), merged |-> st.merged]
    ELSE [cur |-> t, merged |-> Append(st.merged, st.cur)]

\* The loop state after trips_sorted[1..k-1] (0-based) have been scanned,
\* that is after k of the sorted trips have been taken; k >= 1.
RECURSIVE MergeLoop(_, _)
MergeLoop(trips_sorted, k) ==
    IF k <= 1 THEN [cur |-> trips_sorted[1], merged |-> <<>>]
    ELSE MergeStep(MergeLoop(trips_sorted, k - 1), trips_sorted[k])

\* The function without its closing merged.append(cur).
merge_without_last_append(ts) ==
    IF ts = <<>> THEN <<>>
    ELSE MergeLoop(sorted(ts), Len(ts)).merged

merge_overlapping_trips(ts) ==
    IF ts = <<>> THEN <<>>
    ELSE LET trips_sorted == sorted(ts)
             st == MergeLoop(trips_sorted, Len(trips_sorted))
         IN  Append(st.merged, st.cur)

(***************************************************************************)
(* build_abroad_day_flags                                                  *)
(***************************************************************************)

\* The body of the loop for one trip, marking range(si, ei) only.
MarkTripExclusive(fl, trip, p) ==
    LET s == Max(trip.start, p[1])
        e == Min(trip.end, p[2])
        si == s - p[1]
        ei == e - p[1]
    IN  IF e < s THEN fl
        ELSE [i \in 1..Len(fl) |-> IF si <= i - 1 /\ i - 1 < ei THEN 1 ELSE fl[i]]

\* The body of the loop for one trip: clamp it again, skip it when it lies
\* outside the period, set flags[si..ei] to 1.
MarkTrip(fl, trip, p) ==
    LET s == Max(trip.start, p[1])
        e == Min(trip.end, p[2])
        si == s - p[1]
        ei == e - p[1]
    IN  IF e < s THEN fl
        ELSE [i \in 1..Len(fl) |-> IF si <= i - 1 /\ i - 1 <= ei THEN 1 ELSE fl[i]]

\* The flags after the first k trips have been marked.
RECURSIVE MarkLoop(_, _, _)
MarkLoop(ts, p, k) ==
    IF k = 0 THEN Zeros(p[2] - p[1] + 1)
    ELSE MarkTrip(MarkLoop(ts, p, k - 1), ts[k], p)

\* Returns the pair <<flags, p_start>>.
build_abroad_day_flags(ts, p) == <<MarkLoop(ts, p, Len(ts)), p[1]>>

(***************************************************************************)
(* Prefix sums, sum_in_window, rolling_window_violations                   *)
(***************************************************************************)

\* prefix = [0] * (n + 1); prefix[i + 1] = prefix[i] + v
RECURSIVE Prefix(_)
Prefix(fl) ==
    IF fl = <<>> THEN <<0>>
    ELSE LET pre == Prefix(SubSeq(fl, 1, Len(fl) - 1))
         IN  Append(pre, pre[Len(pre)] + fl[Len(fl)])

\* sum_in_window raises IndexError when one of its two reads of prefix is
\* outside the list.
sum_in_window_raises(fl, si, wd) ==
    LET n == Len(fl)
        end == Min(si + wd - 1, n - 1)
        prefix == Prefix(fl)
    IN  n # 0 /\ (~PyInRange(prefix, end + 1) \/ ~PyInRange(prefix, si))

\* The function with the window one day too long.
sum_in_window_long(fl, si, wd) ==
    LET n == Len(fl)
        end == Min(si + wd, n - 1)
        prefix == Prefix(fl)
    IN  IF n = 0 THEN 0 ELSE PyGet(prefix, end + 1) - PyGet(prefix, si)

sum_in_window(fl, si, wd) ==
    LET n == Len(fl)
        end == Min(si + wd - 1, n - 1)
        prefix == Prefix(fl)
    IN  IF n = 0 THEN 0 ELSE PyGet(prefix, end + 1) - PyGet(prefix, si)

\* The comparison turned round.
ExceedsBelow(abroad_days, ma) == abroad_days < ma

\* abroad_days > max_allowed
Exceeds(abroad_days, ma) == abroad_days > ma

\* The violations appended by the iterations start = 0..k-1.
RECURSIVE ScanLoop(_, _, _, _)
ScanLoop(fl, wd, ma, k) ==
    IF k = 0 THEN <<>>
    ELSE LET n == Len(fl)
             prefix == Prefix(fl)
             start == k - 1
             end == Min(start + wd - 1, n - 1)
             abroad_days == PyGet(prefix, end + 1) - PyGet(prefix, start)
             before == ScanLoop(fl, wd, ma, k - 1)
         IN  IF Exceeds(abroad_days, ma)
             THEN Append(before, <<start, end, abroad_days>>)
             ELSE before

\* rolling_window_violations raises IndexError when a read of prefix[end + 1]
\* is outside the list (prefix[start] never is).
rolling_window_violations_raises(fl, wd) ==
    LET n == Len(fl)
        prefix == Prefix(fl)
    IN  n # 0 /\ \E start \in 0..(n - 1) :
                    ~PyInRange(prefix, Min(start + wd - 1, n - 1) + 1)

\* The function scanning only the windows of full length: range(n - window_days + 1).
rolling_window_violations_full_only(fl, wd, ma) ==
    IF Len(fl) = 0 THEN <<>> ELSE ScanLoop(fl, wd, ma, Max(0, Len(fl) - wd + 1))

rolling_window_violations(fl, wd, ma) ==
    IF Len(fl) = 0 THEN <<>> ELSE ScanLoop(fl, wd, ma, Len(fl))

(***************************************************************************)
(* check_abroad_days                                                       *)
(***************************************************************************)

\* humanized: every (si, ei, days) of raw as (base + si, base + ei, days).
humanize(rw, bs) == [i \in 1..Len(rw) |-> <<bs + rw[i][1], bs + rw[i][2], rw[i][3]>>]

\* max(ws, key=...) as a scan that lets a later equal key replace the best.
RECURSIVE PyMaxLast(_)
PyMaxLast(ws) ==
    IF Len(ws) = 1 THEN ws[1]
    ELSE LET best == PyMaxLast(SubSeq(ws, 1, Len(ws) - 1))
             w == ws[Len(ws)]
         IN  IF w[3] >= best[3] THEN w ELSE best

\* max(ws, key=lambda w: w[2]) on a non-empty list: Python's max scans left
\* to right and replaces the best only by an item whose key is greater, so
\* the first item with the largest key is returned.
RECURSIVE PyMax(_)
PyMax(ws) ==
    IF Len(ws) = 1 THEN ws[1]
    ELSE LET best == PyMax(SubSeq(ws, 1, Len(ws) - 1))
             w == ws[Len(ws)]
         IN  IF w[3] > best[3] THEN w ELSE best

\* The selection taken over raw, the index triples, instead of humanized.
WorstOfRaw(rw, bs) == IF rw # <<>> THEN PyMax(rw) ELSE None

\* worst_window = None; if humanized: worst_window = max(humanized, ...)
WorstOf(rw, bs) == IF humanize(rw, bs) # <<>> THEN PyMax(humanize(rw, bs)) ELSE None

\* The locals and the returned triple of check_abroad_days.
check_abroad_days(ts, p, wd, ma) ==
    LET cl == clamp_all(ts, p)
        mg == merge_overlapping_trips(cl)
        fb == build_abroad_day_flags(mg, p)
        fails == rolling_window_violations_raises(fb[1], wd)
        rw == IF fails THEN <<>> ELSE rolling_window_violations(fb[1], wd, ma)
        humanized == humanize(rw, fb[2])
    IN  [clamped |-> cl, merged |-> mg, flags |-> fb[1], base |-> fb[2], raw |-> rw,
         raised |-> IF fails THEN "IndexError" ELSE "",
         is_compliant |-> (Len(humanized) = 0),
         violating_windows |-> humanized,
         worst_window |-> WorstOf(rw, fb[2])]

(***************************************************************************)
(* main: the evaluation followed by the --query-start section              *)
(***************************************************************************)

\* The query with the start left where it was given.
remaining_query_unclamped(ts, p, wd, ma, qs) ==
    LET cl == clamp_all(ts, p)
        mg == merge_overlapping_trips(cl)
        fb == build_abroad_day_flags(mg, p)
        q == qs
        q_end == Min(q + wd - 1, p[2])
        si == q - fb[2]
        fails == sum_in_window_raises(fb[1], si, wd)
        abroad == IF fails THEN 0 ELSE sum_in_window(fb[1], si, wd)
    IN  [flags |-> fb[1], base |-> fb[2], q_start |-> q, q_end |-> q_end, si |-> si,
         raised |-> IF fails THEN "IndexError" ELSE "",
         abroad_in_q |-> abroad,
         remaining |-> IF fails THEN 0 ELSE Max(0, ma - abroad)]

\* Lines 672-686, on the trips, the period and the options of the run:
\* the flags are rebuilt, a query start before the period is moved to its
\* first day, and the remaining days are max(0, max_days - abroad_in_q).
remaining_query(ts, p, wd, ma, qs) ==
    LET cl == clamp_all(ts, p)
        mg == merge_overlapping_trips(cl)
        fb == build_abroad_day_flags(mg, p)
        q == IF qs < fb[2] THEN fb[2] ELSE qs
        q_end == Min(q + wd - 1, p[2])
        si == q - fb[2]
        fails == sum_in_window_raises(fb[1], si, wd)
        abroad == IF fails THEN 0 ELSE sum_in_window(fb[1], si, wd)
    IN  [flags |-> fb[1], base |-> fb[2], q_start |-> q, q_end |-> q_end, si |-> si,
         raised |-> IF fails THEN "IndexError" ELSE "",
         abroad_in_q |-> abroad,
         remaining |-> IF fails THEN 0 ELSE Max(0, ma - abroad)]

(***************************************************************************)
(* render_html_grid: the status badge of the generated page                *)
(***************************************************************************)

\* const windowDays = 365; const maxDays = 180; in the script of the page
HtmlWindowDays == 365
HtmlMaxDays == 180

\* worstWindow() of the page after the iterations i = 0..k-1, with no trip
\* added in the page (planned is all zero): best starts at 0 and is
\* replaced by a larger window sum.
RECURSIVE HtmlWorstLoop(_, _)
HtmlWorstLoop(fl, k) ==
    IF k = 0 THEN 0
    ELSE LET n == Len(fl)
             i == k - 1
             e == Min(n - 1, i + HtmlWindowDays - 1)
             sum == Cardinality({j \in i..e : fl[j + 1] = 1})
             best == HtmlWorstLoop(fl, k - 1)
         IN  IF sum > best THEN sum ELSE best

\* updateMetrics(), run when the page loads: notok = w > maxDays.
HtmlStatus(fl) ==
    IF HtmlWorstLoop(fl, Len(fl)) > HtmlMaxDays THEN "NOT COMPLIANT" ELSE "COMPLIANT"

(***************************************************************************)
(* State machine                                                           *)
(***************************************************************************)

\* The arguments an evaluation is called with: trips, a period, window_days
\* and max_allowed as the input contract describes them, and, with fewer
\* trips, any two dates as the period and integers from -1 as the options.
EvaluationInputs ==
    (TripLists(MaxRunTrips) \X Periods \X (1..MaxWindow) \X (0..MaxAllowed))
    \cup (TripLists(MaxMainTrips) \X AnyPeriods \X ((-1)..MaxWindow) \X ((-1)..MaxAllowed))

Init ==
    /\ op = "none"
    /\ trip_args = <<0, 0>>
    /\ trip_obj = None
    /\ trips = <<>>
    /\ period = <<0, 0>>
    /\ window_days = 0
    /\ max_allowed = 0
    /\ start_index = 0
    /\ q_start = 0
    /\ clamped = <<>>
    /\ merged = <<>>
    /\ flags = <<>>
    /\ base = 0
    /\ raw = <<>>
    /\ is_compliant = FALSE
    /\ violating_windows = <<>>
    /\ worst_window = None
    /\ abroad_in_q = 0
    /\ remaining = 0
    /\ html_status = ""
    /\ raised = ""

\* Trip(start, end): __post_init__ raises ValueError when end < start.
NewTrip ==
    /\ op = "none"
    /\ \E s \in Days, e \in Days :
        /\ op' = "trip"
        /\ trip_args' = <<s, e>>
        /\ trip_obj' = IF TripValid(Trip(s, e)) THEN <<Trip(s, e)>> ELSE None
        /\ raised' = IF TripValid(Trip(s, e)) THEN "" ELSE "ValueError"
    /\ UNCHANGED <<trips, period, window_days, max_allowed, start_index, q_start,
                   clamped, merged, flags, base, raw, is_compliant, violating_windows,
                   worst_window, abroad_in_q, remaining, html_status>>

\* clamp_trip_to_period(trip, period); clamped holds the returned trip, if any.
ClampTrip ==
    /\ op = "none"
    /\ \E t \in Trips, p \in AnyPeriods :
        /\ op' = "clamp"
        /\ trip_obj' = <<t>>
        /\ period' = p
        /\ clamped' = clamp_trip_to_period(t, p)
    /\ UNCHANGED <<trip_args, trips, window_days, max_allowed, start_index, q_start,
                   merged, flags, base, raw, is_compliant, violating_windows,
                   worst_window, abroad_in_q, remaining, html_status, raised>>

\* merge_overlapping_trips(trips)
MergeTrips ==
    /\ op = "none"
    /\ \E ts \in TripLists(MaxTrips) :
        /\ op' = "merge"
        /\ trips' = ts
        /\ merged' = merge_overlapping_trips(ts)
    /\ UNCHANGED <<trip_args, trip_obj, period, window_days, max_allowed, start_index,
                   q_start, clamped, flags, base, raw, is_compliant, violating_windows,
                   worst_window, abroad_in_q, remaining, html_status, raised>>

\* build_abroad_day_flags(trips, period)
BuildFlags ==
    /\ op = "none"
    /\ \E ts \in TripLists(MaxRunTrips), p \in Periods :
        /\ op' = "flags"
        /\ trips' = ts
        /\ period' = p
        /\ \E fb \in {build_abroad_day_flags(ts, p)} :
            /\ flags' = fb[1]
            /\ base' = fb[2]
    /\ UNCHANGED <<trip_args, trip_obj, window_days, max_allowed, start_index, q_start,
                   clamped, merged, raw, is_compliant, violating_windows, worst_window,
                   abroad_in_q, remaining, html_status, raised>>

\* rolling_window_violations(abroad_flags, window_days, max_allowed)
ScanWindows ==
    /\ op = "none"
    /\ \E fl \in FlagLists(MaxLen), wd \in 1..MaxWindow, ma \in 0..MaxAllowed :
        /\ op' = "scan"
        /\ flags' = fl
        /\ window_days' = wd
        /\ max_allowed' = ma
        /\ raw' = rolling_window_violations(fl, wd, ma)
    /\ UNCHANGED <<trip_args, trip_obj, trips, period, start_index, q_start, clamped,
                   merged, base, is_compliant, violating_windows, worst_window,
                   abroad_in_q, remaining, html_status, raised>>

\* check_abroad_days(trips, assessment_period, window_days, max_allowed).
\* Nothing is returned when the scan raises.
CheckAbroadDays ==
    /\ op = "none"
    /\ \E in \in EvaluationInputs :
        \E r \in {check_abroad_days(in[1], in[2], in[3], in[4])} :
            /\ op' = "check"
            /\ trips' = in[1]
            /\ period' = in[2]
            /\ window_days' = in[3]
            /\ max_allowed' = in[4]
            /\ clamped' = r.clamped
            /\ merged' = r.merged
            /\ flags' = r.flags
            /\ base' = r.base
            /\ raw' = r.raw
            /\ raised' = r.raised
            /\ is_compliant' = IF r.raised = "" THEN r.is_compliant ELSE FALSE
            /\ violating_windows' = IF r.raised = "" THEN r.violating_windows ELSE <<>>
            /\ worst_window' = IF r.raised = "" THEN r.worst_window ELSE None
    /\ UNCHANGED <<trip_args, trip_obj, start_index, q_start, abroad_in_q, remaining,
                   html_status>>

\* main with --query-start and --visualize html.  The period has passed the
\* test of line 632 and trips is the list after line 651, the planned trip
\* appended.  The evaluation of line 653 comes first, then the remaining
\* days of lines 672-686, then the page of line 701, whose script sets the
\* badge when it loads; an exception in the query ends the run before the
\* page is written.
Main ==
    /\ op = "none"
    /\ \E ts \in TripLists(MaxMainTrips), p \in Periods,
          wd \in 1..MaxWindow, ma \in 0..MaxAllowed, qs \in Days :
        \E r \in {check_abroad_days(ts, p, wd, ma)},
           q \in {remaining_query(ts, p, wd, ma, qs)} :
            /\ op' = "main"
            /\ trips' = ts
            /\ period' = p
            /\ window_days' = wd
            /\ max_allowed' = ma
            /\ clamped' = r.clamped
            /\ merged' = r.merged
            /\ raw' = r.raw
            /\ is_compliant' = r.is_compliant
            /\ violating_windows' = r.violating_windows
            /\ worst_window' = r.worst_window
            /\ q_start' = qs
            /\ flags' = q.flags
            /\ base' = q.base
            /\ start_index' = q.si
            /\ abroad_in_q' = q.abroad_in_q
            /\ remaining' = q.remaining
            /\ raised' = q.raised
            /\ html_status' = IF q.raised = "" THEN HtmlStatus(q.flags) ELSE ""
    /\ UNCHANGED <<trip_args, trip_obj>>

Next ==
    \/ NewTrip
    \/ ClampTrip
    \/ MergeTrips
    \/ BuildFlags
    \/ ScanWindows
    \/ CheckAbroadDays
    \/ Main

Spec == Init /\ [][Next]_vars

(***************************************************************************)
(* Properties                                                              *)
(***************************************************************************)

\* Number of present days among the indices a..b (0-based) of a record.
PresentDays(fl, a, b) == Cardinality({i \in a..b : i >= 0 /\ i < Len(fl) /\ fl[i + 1] = 1})

\* The elements of a list.
Elems(list) == {list[i] : i \in 1..Len(list)}

\* Sum of the inclusive lengths of a list of trips.
RECURSIVE TotalLength(_)
TotalLength(ts) ==
    IF ts = <<>> THEN 0
    ELSE (Head(ts).end - Head(ts).start + 1) + TotalLength(Tail(ts))

\* The evaluation has run, called directly or from main.
Evaluated == op \in {"check", "main"}

\* C1: for every record, window_days >= 1 and max_allowed >= 0, the scan
\* returns, in strictly increasing start, exactly the triples
\* (start, end, count) of the starts in 0..len-1 whose window
\* [start, min(start + window_days - 1, len - 1)] holds more than max_allowed
\* present days; truncated windows are examined, and the empty record gives
\* the empty list.
C1_ScanListsEveryViolatingStart ==
    op = "scan" =>
        LET n == Len(flags)
            End(s) == Min(s + window_days - 1, n - 1)
            Count(s) == PresentDays(flags, s, End(s))
        IN  /\ \A i \in 1..(Len(raw) - 1) : raw[i][1] < raw[i + 1][1]
            /\ Elems(raw) = {<<s, End(s), Count(s)>> : s \in {x \in 0..(n - 1) : Count(x) > max_allowed}}
            /\ (n = 0 => raw = <<>>)

\* A scan that reports a truncated window, reports several and leaves some
\* start out.
C1_Witness ==
    /\ op = "scan"
    /\ Len(raw) >= 2
    /\ Len(raw) < Len(flags)
    /\ \E i \in 1..Len(raw) : raw[i][2] - raw[i][1] + 1 < window_days

\* C2: when the evaluation finds a violation, the worst window is a
\* violation with the largest abroad-day count, and among the violations
\* with that count it is the one with the lowest window start.
C2_WorstIsFirstOfTheLargest ==
    (Evaluated /\ violating_windows # <<>>) =>
        \E i \in 1..Len(violating_windows) :
            /\ worst_window = violating_windows[i]
            /\ \A j \in 1..Len(violating_windows) :
                /\ violating_windows[j][3] <= violating_windows[i][3]
                /\ (violating_windows[j][3] = violating_windows[i][3]
                        => violating_windows[j][1] >= violating_windows[i][1])

\* Two violations tie at the largest count and a third has a smaller one;
\* the worst window is the earlier of the two.
C2_Witness ==
    /\ op = "check"
    /\ \E i, j, k \in 1..Len(violating_windows) :
        /\ i < j
        /\ worst_window = violating_windows[i]
        /\ violating_windows[j][3] = worst_window[3]
        /\ violating_windows[k][3] < worst_window[3]

\* C3: the output of the merge is sorted ascending by start and consecutive
\* output trips a, b satisfy b.start >= a.end + 2; the empty input gives
\* the empty output.
C3_MergedSortedWithGaps ==
    op = "merge" =>
        /\ \A i \in 1..(Len(merged) - 1) :
            /\ merged[i].start < merged[i + 1].start
            /\ merged[i + 1].start >= merged[i].end + 2
        /\ (trips = <<>> => merged = <<>>)

\* Three unsorted trips merged into two.
C3_Witness ==
    /\ op = "merge"
    /\ Len(trips) = 3
    /\ Len(merged) = 2
    /\ trips[1].start > trips[3].start

\* C4: merging the output of the merge gives that output again.
C4_MergeIdempotent ==
    op = "merge" => merge_overlapping_trips(merged) = merged

\* A merge that changed its input and left two trips.
C4_Witness ==
    /\ op = "merge"
    /\ merged # trips
    /\ Len(merged) = 2
    /\ Len(trips) = 2

\* C5: scanning the trips in ascending start order, the next trip is
\* absorbed into the running trip exactly when
\* next.start <= running.end + 1; the running trip then keeps its start
\* and ends at the later of the two ends; otherwise the running trip is
\* emitted unchanged and the next trip becomes the running one.  Two
\* touching trips become one, two trips one free day apart stay two.
C5_AbsorbExactlyWhenTouching ==
    (op = "merge" /\ trips # <<>>) =>
        LET ts == sorted(trips)
            final == MergeLoop(ts, Len(ts))
        IN  /\ \A k \in 2..Len(ts) :
                LET running == MergeLoop(ts, k - 1)
                    next == ts[k]
                    after == MergeLoop(ts, k)
                IN  IF next.start <= running.cur.end + 1
                    THEN /\ after.cur.start = running.cur.start
                         /\ after.cur.end = Max(running.cur.end, next.end)
                         /\ after.merged = running.merged
                    ELSE /\ after.merged = Append(running.merged, running.cur)
                         /\ after.cur = next
            /\ merged = Append(final.merged, final.cur)
            /\ (Len(ts) = 2 /\ ts[2].start = ts[1].end + 1
                    => merged = <<[start |-> ts[1].start, end |-> ts[2].end]>>)
            /\ (Len(ts) = 2 /\ ts[2].start = ts[1].end + 2 => merged = ts)

\* A merge of three unsorted trips that absorbs a trip ending before the
\* running trip does.
C5_Witness ==
    /\ op = "merge"
    /\ Len(trips) = 3
    /\ trips[1].start > trips[2].start
    /\ \E k \in 2..3 :
        /\ sorted(trips)[k].start <= MergeLoop(sorted(trips), k - 1).cur.end + 1
        /\ sorted(trips)[k].end < MergeLoop(sorted(trips), k - 1).cur.end

\* C6: for a period with end >= start and any trips, the built record has
\* (period.end - period.start) + 1 entries, the entry of day d is 1 iff d
\* lies within one of the trips and 0 otherwise, and the returned base date
\* is period.start.
C6_FlagsMarkExactlyTheTripDays ==
    (op = "flags" /\ period[2] >= period[1]) =>
        /\ Len(flags) = (period[2] - period[1]) + 1
        /\ \A d \in period[1]..period[2] :
            flags[(d - period[1]) + 1] =
                IF \E i \in 1..Len(trips) : trips[i].start <= d /\ d <= trips[i].end
                THEN 1 ELSE 0
        /\ base = period[1]

\* Two trips, one of them reaching outside the period, and a record with
\* both present and absent days.
C6_Witness ==
    /\ op = "flags"
    /\ Len(trips) = 2
    /\ \E i \in 1..2 : trips[i].start < period[1] /\ trips[i].end >= period[1]
    /\ \E i, j \in 1..Len(flags) : flags[i] = 1 /\ flags[j] = 0

\* C7: in the evaluation, the number of 1 entries of the presence record
\* equals the sum of the inclusive lengths of the trips obtained by
\* clamping every trip to the period and then merging.
C7_PresenceConservation ==
    Evaluated =>
        /\ merged = merge_overlapping_trips(clamp_all(trips, period))
        /\ PresentDays(flags, 0, Len(flags) - 1) = TotalLength(merged)

\* Two overlapping trips, one of them cut by the period, merged into one.
C7_Witness ==
    /\ op = "check"
    /\ Len(trips) = 2
    /\ Len(clamped) = 2
    /\ clamped # trips
    /\ Len(merged) = 1
    /\ trips[1].end >= trips[2].start /\ trips[2].end >= trips[1].start
    /\ TotalLength(clamped) > TotalLength(merged)

\* C8: for a fixed record and window_days, every violation of the scan
\* with a larger max_allowed is a violation, with the same start, end and
\* count, of the scan with a smaller one.
C8_RaisingMaxAllowedAddsNoViolation ==
    op = "scan" =>
        /\ \A m2 \in max_allowed..(MaxAllowed + 1) :
            Elems(rolling_window_violations(flags, window_days, m2)) \subseteq Elems(raw)
        /\ \A m1 \in 0..max_allowed :
            Elems(raw) \subseteq Elems(rolling_window_violations(flags, window_days, m1))

\* A scan with violations, of which the next larger max_allowed removes some
\* and keeps some.
C8_Witness ==
    /\ op = "scan"
    /\ rolling_window_violations(flags, window_days, max_allowed + 1) # <<>>
    /\ Len(rolling_window_violations(flags, window_days, max_allowed + 1)) < Len(raw)

\* C9: for a query start q inside the period, a window_days >= 1 and a
\* max_allowed >= 0, with count the number of present days in
\* [q, min(q + window_days - 1, period.end)]: the query answers, and
\* remaining + count = max_allowed when remaining > 0, and
\* count >= max_allowed when remaining = 0.
C9_AllowanceIdentity ==
    (op = "main" /\ period[1] <= q_start /\ q_start <= period[2]) =>
        LET count == PresentDays(flags, q_start - period[1],
                                 Min(q_start + window_days - 1, period[2]) - period[1])
        IN  /\ raised = ""
            /\ remaining >= 0
            /\ (remaining > 0 => remaining + count = max_allowed)
            /\ (remaining = 0 => count >= max_allowed)

\* A query inside the period whose window is cut by the end of the period,
\* holds a present day and leaves days remaining.
C9_Witness ==
    /\ op = "main"
    /\ period[1] < q_start /\ q_start <= period[2]
    /\ q_start + window_days - 1 > period[2]
    /\ abroad_in_q > 0
    /\ remaining > 0

\* C10: in every result of the evaluation, is_compliant is true iff
\* violating_windows is empty, worst_window is None iff is_compliant is
\* true, and a worst_window that is present is an element of
\* violating_windows.
C10_ResultConsistent ==
    Evaluated =>
        /\ is_compliant <=> (violating_windows = <<>>)
        /\ (worst_window = None) <=> is_compliant
        /\ (worst_window # None => worst_window \in Elems(violating_windows))

\* A non-compliant result over a period that does not start on day 0.
C10_Witness ==
    /\ op = "check"
    /\ ~is_compliant
    /\ period[1] > 0
    /\ Len(violating_windows) >= 2
    /\ worst_window # None

\* C11: an evaluation called with window_days <= 0 or max_allowed < 0 is
\* rejected with an error before any window is scanned, and returns no
\* compliance report.
C11_InvalidConfigurationRejected ==
    (op = "check" /\ (window_days <= 0 \/ max_allowed < 0)) => raised # ""

\* C12: an evaluation called with a period whose end is before its start
\* is rejected with an error and returns no compliance report.
C12_InvalidPeriodRejected ==
    (op = "check" /\ period[2] < period[1]) => raised # ""

\* C13: constructing a Trip with end < start fails at once, so every Trip
\* there is has end >= start: the trips given to a function, the trip
\* returned by the clamp, and the trips in the output of the merge.
C13_EveryTripHasEndNotBeforeStart ==
    /\ (op = "trip" =>
            /\ (trip_args[2] < trip_args[1] => raised = "ValueError" /\ trip_obj = None)
            /\ (trip_args[2] >= trip_args[1]
                    => raised = "" /\ trip_obj = <<[start |-> trip_args[1], end |-> trip_args[2]]>>))
    /\ \A t \in Elems(trip_obj) \cup Elems(trips) \cup Elems(clamped) \cup Elems(merged) :
            t.end >= t.start

\* A construction with end before start, which raised.
C13_Witness ==
    /\ op = "trip"
    /\ trip_args[2] < trip_args[1]
    /\ raised = "ValueError"

\* C14: the clamp returns the trip (max(trip.start, period.start),
\* min(trip.end, period.end)) when that range is not empty and None exactly
\* when min(trip.end, period.end) < max(trip.start, period.start); a
\* returned trip lies inside the period and covers exactly the days common
\* to the trip and the period.
C14_ClampIsTheIntersection ==
    op = "clamp" =>
        LET t == trip_obj[1]
            lo == IF t.start >= period[1] THEN t.start ELSE period[1]
            hi == IF t.end <= period[2] THEN t.end ELSE period[2]
        IN  /\ (clamped = None) <=> (hi < lo)
            /\ (hi >= lo => clamped = <<[start |-> lo, end |-> hi]>>)
            /\ \A i \in 1..Len(clamped) :
                /\ period[1] <= clamped[i].start
                /\ clamped[i].end <= period[2]
                /\ (clamped[i].start)..(clamped[i].end)
                       = ((t.start)..(t.end)) \cap ((period[1])..(period[2]))

\* A trip reaching over both ends of a one-day period, clamped to that day.
C14_Witness ==
    /\ op = "clamp"
    /\ trip_obj[1].start < period[1]
    /\ trip_obj[1].end > period[2]
    /\ clamped # None
    /\ clamped[1].start = clamped[1].end

\* C15: with window_days >= 1 and max_allowed >= 0, a query start before
\* period.start is answered as the query start period.start: the run
\* completes and remaining is max(0, max_allowed - the number of present
\* days in [period.start, min(period.start + window_days - 1, period.end)]).
C15_EarlyQueryStartsAtThePeriod ==
    (op = "main" /\ q_start < period[1]) =>
        LET count == PresentDays(flags, 0,
                                 Min(period[1] + window_days - 1, period[2]) - period[1])
            atStart == remaining_query(trips, period, window_days, max_allowed, period[1])
        IN  /\ raised = ""
            /\ atStart.raised = ""
            /\ abroad_in_q = count
            /\ remaining = atStart.remaining
            /\ remaining = (IF max_allowed - count >= 0 THEN max_allowed - count ELSE 0)

\* A query start before the period whose window holds a present day.
C15_Witness ==
    /\ op = "main"
    /\ q_start < period[1]
    /\ raised = ""
    /\ abroad_in_q > 0
    /\ remaining < max_allowed

\* C16: for every record and every window_days and max_allowed given to the
\* run, the status the generated page shows on load, before a trip is added
\* in the page, is COMPLIANT exactly when the is_compliant of the run is
\* true.
C16_PageStatusIsTheCoreStatus ==
    (op = "main" /\ raised = "") =>
        /\ html_status \in {"COMPLIANT", "NOT COMPLIANT"}
        /\ (html_status = "COMPLIANT") <=> is_compliant

CoveredDays(ts, p) == {d \in (p[1])..(p[2]) : \E t \in Elems(ts) : t.start <= d /\ d <= t.end}

\* The record of the period that marks exactly a set of its days.
RecordOf(ds, p) ==
    IF p[2] < p[1] THEN <<>>
    ELSE [i \in 1..(p[2] - p[1] + 1) |-> IF (p[1] + i - 1) \in ds THEN 1 ELSE 0]

\* The returned triple of an evaluation, with the error it may have raised.
ResultOf(ts, p, wd, ma) ==
    LET r == check_abroad_days(ts, p, wd, ma)
    IN  <<r.raised, r.is_compliant, r.violating_windows, r.worst_window>>

\* A list in the opposite order.
Reversed(list) == [i \in 1..Len(list) |-> list[Len(list) + 1 - i]]

\* The lists that give a trip as two pieces, adjacent or sharing a day.
Pieces(t) ==
    {<<[start |-> t.start, end |-> k], [start |-> k + 1, end |-> t.end]>> :
        k \in (t.start)..(t.end - 1)}
    \cup {<<[start |-> k, end |-> t.end], [start |-> t.start, end |-> k]>> :
        k \in (t.start)..(t.end)}

\* C18: the result of the evaluation depends only on the set of days of the
\* period covered by the trips. The record is the record of that set, built
\* from the merged or from the clamped, unmerged trips, and the returned
\* (is_compliant, violating_windows, worst_window) is the scan of that
\* record; so lists covering the same days give the identical result. With
\* window_days = 1 and max_allowed = 0, where every present day is a
\* violating window and the result shows the whole record, the trips in the
\* opposite order, with a trip repeated, or with the first trip given as
\* two overlapping or adjacent pieces are evaluated and compared.
C18_ResultDependsOnCoveredDaysOnly ==
    op = "check" =>
        LET record == RecordOf(CoveredDays(trips, period), period)
            scan == rolling_window_violations(record, window_days, max_allowed)
            here == <<raised, is_compliant, violating_windows, worst_window>>
            Same(ts) == ResultOf(ts, period, window_days, max_allowed) = here
        IN  /\ flags = record
            /\ build_abroad_day_flags(clamped, period)[1] = record
            /\ (raised = "" =>
                    /\ violating_windows = humanize(scan, period[1])
                    /\ is_compliant = (scan = <<>>)
                    /\ worst_window = WorstOf(scan, period[1]))
            /\ ((window_days = 1 /\ max_allowed = 0) =>
                    /\ Same(Reversed(trips))
                    /\ \A i \in 1..Len(trips) : Same(Append(trips, trips[i]))
                    /\ (trips # <<>> => \A ps \in Pieces(trips[1]) : Same(ps \o Tail(trips))))

\* Two trips given later first, with a gap between them, in a period that
\* holds both, evaluated with window_days = 1 and max_allowed = 0.
C18_Witness ==
    /\ op = "check"
    /\ Len(trips) = 2
    /\ trips[2].end + 1 < trips[1].start
    /\ period[1] <= trips[2].start /\ trips[1].end <= period[2]
    /\ window_days = 1 /\ max_allowed = 0
    /\ raised = ""
    /\ ~is_compliant

\* C19: for every query start, dates after period.end included, with
\* window_days >= 1 and max_allowed >= 0, the query of main completes
\* without an error with 0 <= remaining <= max_allowed, and the two indices
\* of prefix it reads, start_index and end + 1, lie within 0..len(flags).
C19_RemainingQueryIsTotal ==
    (op = "main" /\ window_days >= 1 /\ max_allowed >= 0) =>
        LET n == Len(flags)
            end == Min(start_index + window_days - 1, n - 1)
        IN  /\ raised = ""
            /\ 0 <= remaining /\ remaining <= max_allowed
            /\ 0 <= start_index /\ start_index <= n
            /\ 0 <= end + 1 /\ end + 1 <= n

====
